---- MODULE Spec2Model ----
(***************************************************************************)
(* Model of the flow-execution engine of flow-manager (src/main.py):       *)
(* FlowEngine.execute, _get_next_task, _condition_was_met and the          *)
(* execute_flow request handler.  Each request handler of Runs performs    *)
(* one call of engine.execute(flow); the locals of that call are the       *)
(* per-run components of the variables below.                              *)
(***************************************************************************)
EXTENDS Integers, Sequences, FiniteSets, TLC

\* ------------------------------------------------------------------ bounds

\* Longest execution log a run may build (a cyclic flow loops forever).
MaxSteps == 3

\* ------------------------------------------------------------- data values

\* Python's None, where a name or an outcome is expected.
NoneValue == "None"

\* The end sentinel of the loop.
End == "end"

\* An empty dict.
EmptyMap == [k \in {} |-> 0]

\* The request handlers (threads of the web server) that may call execute.
Runs == {1, 2}

\* Names of the outputs and parameters of the registered tasks, in the order
\* in which a task inserts them into the dict it returns.
KeyOrder == <<"x", "y">>

Keys == {KeyOrder[i] : i \in 1..Len(KeyOrder)}

\* The keys of dict m as a list, as iterating m yields them.
KeyList(m) == SelectSeq(KeyOrder, LAMBDA k : k \in DOMAIN m)

\* ---------------------------------------------------------------- registry

\* Signatures of the registered task functions: the parameters in the order
\* of declaration, and the default of every parameter that has one.
\*     def a(x=0):  if x == 1: raise ...;  return {"x": 1}
\*     def b(x):    return {"y": x}
Signature(t) ==
    CASE t = "a" -> [params |-> <<"x">>, defaults |-> [k \in {"x"} |-> 0]]
      [] t = "b" -> [params |-> <<"x">>, defaults |-> EmptyMap]

\* The registry: the names bound to a task function.
Registry == {"a", "b"}

\* A task name no function is registered for.
Ghost == "ghost"

\* inspect.signature(f).parameters.keys()
ParamNames(t) == {Signature(t).params[i] : i \in 1..Len(Signature(t).params)}

\* The parameters whose default is inspect.Parameter.empty, in order.
RequiredParams(t) ==
    SelectSeq(Signature(t).params, LAMBDA p : p \notin DOMAIN Signature(t).defaults)

\* The body of task t run on its bound arguments: the dict it returns, or a
\* raised exception.
Body(t, args) ==
    CASE t = "a" -> IF args["x"] = 1
                    THEN [raised |-> TRUE, value |-> EmptyMap]
                    ELSE [raised |-> FALSE, value |-> [k \in {"x"} |-> 1]]
      [] t = "b" -> [raised |-> FALSE, value |-> [k \in {"y"} |-> args["x"]]]

\* task_func(**kwargs): a TypeError when a parameter without default gets no
\* argument, else the body on the arguments, defaults filled in.
CallTask(t, kwargs) ==
    IF \E i \in 1..Len(RequiredParams(t)) : RequiredParams(t)[i] \notin DOMAIN kwargs
    THEN [raised |-> TRUE, value |-> EmptyMap]
    ELSE Body(t, [p \in ParamNames(t) |->
                    IF p \in DOMAIN kwargs THEN kwargs[p] ELSE Signature(t).defaults[p]])

\* ------------------------------------------------------------------- flows

Outcomes == {"success", "failure"}

Targets == Registry \cup {End, Ghost, NoneValue}

\* A condition of a flow; an absent target reads as None (dict.get).
Conditions ==
    [source_task : Registry, outcome : Outcomes,
     target_task_success : Targets, target_task_failure : Targets]

\* The lists of conditions of the submitted flows: none, one or two
\* conditions, two of them possibly for the same source task.
CondLists ==
    {<<>>} \cup {<<c>> : c \in Conditions} \cup {<<c, d>> : c, d \in Conditions}

Flows ==
    [id : {"f1"}, name : {"flow one"},
     start_task : Registry \cup {End, Ghost}, conditions : CondLists]

\* ------------------------------------------------------------------- state

VARIABLES
    request,                \* request[r]: the flow handler r received, if any
    pc,                     \* pc[r]: where handler r is in execute
    log,                    \* the locals of execute, per handler
    current,
    previous_task_outputs,
    flow_failed,
    task_succeeded,
    current_task_outputs,
    next_task,
    result,                 \* result[r]: what execute returned, if it has
    calls                   \* calls[r]: the task functions called, in order

vars ==
    <<request, pc, log, current, previous_task_outputs, flow_failed,
      task_succeeded, current_task_outputs, next_task, result, calls>>

\* The flow of handler r: request.json["flow"].
Flow(r) == request[r][1]

\* ----------------------------------------------------- the engine's helpers

\* A slip: the last condition of the task is the one found.
FindConditionLast(flow, task) ==
    LET hits == {i \in 1..Len(flow.conditions) : flow.conditions[i].source_task = task}
    IN  IF hits = {} THEN 0 ELSE CHOOSE i \in hits : \A j \in hits : i >= j

\* next((c for c in flow["conditions"] if c["source_task"] == task), None):
\* the index of the first condition of the task, 0 for None.
FindCondition(flow, task) ==
    LET hits == {i \in 1..Len(flow.conditions) : flow.conditions[i].source_task = task}
    IN  IF hits = {} THEN 0 ELSE CHOOSE i \in hits : \A j \in hits : i <= j

\* condition["outcome"] if condition else None
ExpectedOutcome(flow, task) ==
    LET i == FindCondition(flow, task)
    IN  IF i = 0 THEN NoneValue ELSE flow.conditions[i].outcome

ActualOutcome(succeeded) == IF succeeded THEN "success" ELSE "failure"

\* A slip: the two targets are exchanged.
GetNextTaskSwapped(flow, current_task, succeeded) ==
    LET i == FindCondition(flow, current_task)
    IN  IF i = 0 THEN NoneValue
        ELSE IF ActualOutcome(succeeded) = flow.conditions[i].outcome
             THEN flow.conditions[i].target_task_failure
             ELSE flow.conditions[i].target_task_success

\* A slip: an absent target reads as the end sentinel (dict.get with a
\* default).
GetNextTaskDefaultEnd(flow, current_task, succeeded) ==
    LET i == FindCondition(flow, current_task)
        t == IF i = 0 THEN NoneValue
             ELSE IF ActualOutcome(succeeded) = flow.conditions[i].outcome
                  THEN flow.conditions[i].target_task_success
                  ELSE flow.conditions[i].target_task_failure
    IN  IF i # 0 /\ t = NoneValue THEN End ELSE t

\* FlowEngine._get_next_task
GetNextTask(flow, current_task, succeeded) ==
    LET i == FindCondition(flow, current_task)
    IN  IF i = 0 THEN NoneValue
        ELSE IF ActualOutcome(succeeded) = flow.conditions[i].outcome
             THEN flow.conditions[i].target_task_success
             ELSE flow.conditions[i].target_task_failure

\* A slip: a step counts as met when its task succeeded.
ConditionWasMetBySuccess(flow, current_task, succeeded) ==
    LET i == FindCondition(flow, current_task)
    IN  IF i = 0 THEN TRUE ELSE succeeded

\* FlowEngine._condition_was_met
ConditionWasMet(flow, current_task, succeeded) ==
    LET i == FindCondition(flow, current_task)
    IN  IF i = 0 THEN TRUE
        ELSE ActualOutcome(succeeded) = flow.conditions[i].outcome

\* A slip: the filter is inverted (if k not in param_names).
TaskKwargsInverted(t, outputs) ==
    [k \in DOMAIN outputs \ ParamNames(t) |-> outputs[k]]

\* {k: v for k, v in previous_task_outputs.items() if k in param_names}
TaskKwargs(t, outputs) ==
    [k \in DOMAIN outputs \cap ParamNames(t) |-> outputs[k]]

\* [key for key in current_task_outputs.keys() if key not in next_param_names]
IncompatibleKeys(next, outputs) ==
    SelectSeq(KeyList(outputs), LAMBDA k : k \notin ParamNames(next))

\* A slip: the test of the comprehension is inverted.
MissingParamsInverted(next, outputs) ==
    SelectSeq(RequiredParams(next), LAMBDA p : p \in DOMAIN outputs)

\* [param.name for param in next_required_params
\*  if param.name not in current_task_outputs]
MissingParams(next, outputs) ==
    SelectSeq(RequiredParams(next), LAMBDA p : p \notin DOMAIN outputs)

\* The entry a step appends to the log; output is <<dict>>, or <<>> for None.
LogEntry(task, expected, succeeded, output) ==
    [task |-> task, expected_outcome |-> expected, success |-> succeeded,
     output |-> output]

\* The three messages of a "failure" result: the f-string's text with its
\* interpolated names and list.
NotFoundMessage(task) ==
    [text |-> "Task '{1}' not found in registry",
     names |-> <<task>>, list |-> <<>>]

IncompatibleMessage(next, task, keys) ==
    [text |-> "Task '{1}' does not accept outputs from '{2}': {list}",
     names |-> <<next, task>>, list |-> keys]

MissingMessage(next, task, params) ==
    [text |-> "Task '{1}' is missing required parameters from previous task '{2}': {list}",
     names |-> <<next, task>>, list |-> params]

\* The dict of an early return.
FailureResult(message, lg) ==
    [status |-> "failure", message |-> message, execution_log |-> lg]

\* A slip: the final status of a failed flow is spelled "failure".
FinalResultFailure(flow, failed, lg) ==
    [status |-> IF failed THEN "failure" ELSE "completed",
     flow_id |-> flow.id, flow_name |-> flow.name, execution_log |-> lg]

\* A slip: the final status ignores flow_failed.
FinalResultCompleted(flow, failed, lg) ==
    [status |-> "completed",
     flow_id |-> flow.id, flow_name |-> flow.name, execution_log |-> lg]

\* The dict returned after the loop.
FinalResult(flow, failed, lg) ==
    [status |-> IF failed THEN "failed" ELSE "completed",
     flow_id |-> flow.id, flow_name |-> flow.name, execution_log |-> lg]

\* ----------------------------------------------------------------- actions

\* A slip: the outputs handed on are kept on the engine, which every call of
\* execute shares, and are not reset when a call begins.
InitialOutputsKept ==
    IF \E q \in Runs : pc[q] # "idle"
    THEN current_task_outputs[CHOOSE q \in Runs : pc[q] # "idle"]
    ELSE EmptyMap

\* The locals of execute before its loop.
InitialOutputs == EmptyMap

InitialFailed == FALSE

\* A slip: the log is kept on the engine, which every call of execute
\* shares, and is not emptied when a call begins.
InitialLogKept ==
    IF \E q \in Runs : pc[q] # "idle"
    THEN log[CHOOSE q \in Runs : pc[q] # "idle"]
    ELSE <<>>

InitialLog == <<>>

\* A slip: the walk starts at the source task of the first condition.
InitialCurrentFirstSource(flow) ==
    IF flow.conditions = <<>> THEN flow.start_task
    ELSE flow.conditions[1].source_task

\* current = flow["start_task"]
InitialCurrent(flow) == flow.start_task

\* execute_flow: the handler reads the flow of its request and calls
\* engine.execute, which sets up its locals.
execute_flow(r) ==
    /\ pc[r] = "idle"
    /\ request[r] # <<>>
    /\ pc' = [pc EXCEPT ![r] = "while"]
    /\ log' = [log EXCEPT ![r] = InitialLog]
    /\ current' = [current EXCEPT ![r] = InitialCurrent(Flow(r))]
    /\ previous_task_outputs' = [previous_task_outputs EXCEPT ![r] = InitialOutputs]
    /\ flow_failed' = [flow_failed EXCEPT ![r] = InitialFailed]
    /\ UNCHANGED <<request, task_succeeded, current_task_outputs, next_task,
                   result, calls>>

\* The loop's test fails, or the loop was left by break: the final return.
ReturnFinal(r) ==
    /\ \/ pc[r] = "while" /\ current[r] = End
       \/ pc[r] = "break"
    /\ pc' = [pc EXCEPT ![r] = "done"]
    /\ result' = [result EXCEPT ![r] = <<FinalResult(Flow(r), flow_failed[r], log[r])>>]
    /\ UNCHANGED <<request, log, current, previous_task_outputs, flow_failed,
                   task_succeeded, current_task_outputs, next_task, calls>>

\* A slip: the unknown task is logged as a failed step.
UnknownTaskLogged(lg, task) == Append(lg, LogEntry(task, NoneValue, FALSE, <<>>))

\* The log an unknown task returns with.
UnknownTaskLog(lg, task) == lg

\* current is not in the registry: the first early return.
ReturnUnknownTask(r) ==
    /\ pc[r] = "while"
    /\ current[r] # End
    /\ current[r] \notin Registry
    /\ pc' = [pc EXCEPT ![r] = "done"]
    /\ result' = [result EXCEPT ![r] =
          <<FailureResult(NotFoundMessage(current[r]),
                          UnknownTaskLog(log[r], current[r]))>>]
    /\ UNCHANGED <<request, log, current, previous_task_outputs, flow_failed,
                   task_succeeded, current_task_outputs, next_task, calls>>

\* A slip: the except branch does not reset current_task_outputs.
TryTaskStaleOutputs(flow, task, previous) ==
    LET kwargs == TaskKwargs(task, previous)
        ret    == CallTask(task, kwargs)
        exp    == ExpectedOutcome(flow, task)
    IN  IF ret.raised
        THEN [call |-> <<task, kwargs>>,
              entry |-> LogEntry(task, exp, FALSE, <<>>),
              succeeded |-> FALSE, outputs |-> previous]
        ELSE [call |-> <<task, kwargs>>,
              entry |-> LogEntry(task, exp, TRUE, <<ret.value>>),
              succeeded |-> TRUE, outputs |-> ret.value]

\* A slip: the except block sets task_succeeded = True.
TryTaskFaultAsSuccess(flow, task, previous) ==
    LET kwargs == TaskKwargs(task, previous)
        ret    == CallTask(task, kwargs)
        exp    == ExpectedOutcome(flow, task)
    IN  IF ret.raised
        THEN [call |-> <<task, kwargs>>,
              entry |-> LogEntry(task, exp, FALSE, <<>>),
              succeeded |-> TRUE, outputs |-> EmptyMap]
        ELSE [call |-> <<task, kwargs>>,
              entry |-> LogEntry(task, exp, TRUE, <<ret.value>>),
              succeeded |-> TRUE, outputs |-> ret.value]

\* What the try statement leaves behind: the task called on the arguments
\* filtered from the previous outputs, the entry logged, task_succeeded and
\* current_task_outputs.
TryTask(flow, task, previous) ==
    LET kwargs == TaskKwargs(task, previous)
        ret    == CallTask(task, kwargs)
        exp    == ExpectedOutcome(flow, task)
    IN  IF ret.raised
        THEN [call |-> <<task, kwargs>>,
              entry |-> LogEntry(task, exp, FALSE, <<>>),
              succeeded |-> FALSE, outputs |-> EmptyMap]
        ELSE [call |-> <<task, kwargs>>,
              entry |-> LogEntry(task, exp, TRUE, <<ret.value>>),
              succeeded |-> TRUE, outputs |-> ret.value]

\* One task is looked up, called and logged.
RunTask(r) ==
    /\ pc[r] = "while"
    /\ current[r] # End
    /\ current[r] \in Registry
    /\ Len(log[r]) < MaxSteps
    /\ LET t == TryTask(Flow(r), current[r], previous_task_outputs[r])
       IN  /\ calls' = [calls EXCEPT ![r] = Append(@, t.call)]
           /\ log' = [log EXCEPT ![r] = Append(@, t.entry)]
           /\ task_succeeded' = [task_succeeded EXCEPT ![r] = t.succeeded]
           /\ current_task_outputs' = [current_task_outputs EXCEPT ![r] = t.outputs]
    /\ pc' = [pc EXCEPT ![r] = "resolve"]
    /\ UNCHANGED <<request, current, previous_task_outputs, flow_failed,
                   next_task, result>>

\* next_task = self._get_next_task(...); if next_task is None: break
ResolveNext(r) ==
    /\ pc[r] = "resolve"
    /\ LET next == GetNextTask(Flow(r), current[r], task_succeeded[r])
       IN  /\ next_task' = [next_task EXCEPT ![r] = next]
           /\ pc' = [pc EXCEPT ![r] = IF next = NoneValue THEN "break" ELSE "validate"]
    /\ UNCHANGED <<request, log, current, previous_task_outputs, flow_failed,
                   task_succeeded, current_task_outputs, result, calls>>

\* Whether the hand-off to next is validated at all.
Validated(next) == next # End /\ next \in Registry

\* A slip: the two checks in the other order.
ValidateMissingFirst(next, task, outputs) ==
    IF ~Validated(next) THEN <<>>
    ELSE IF MissingParams(next, outputs) # <<>>
         THEN <<MissingMessage(next, task, MissingParams(next, outputs))>>
    ELSE IF IncompatibleKeys(next, outputs) # <<>>
         THEN <<IncompatibleMessage(next, task, IncompatibleKeys(next, outputs))>>
    ELSE <<>>

\* A slip: the hand-off is validated only when the task produced outputs
\* (if current_task_outputs and next_task in registry).
ValidateProducedOnly(next, task, outputs) ==
    IF ~Validated(next) \/ outputs = EmptyMap THEN <<>>
    ELSE IF IncompatibleKeys(next, outputs) # <<>>
         THEN <<IncompatibleMessage(next, task, IncompatibleKeys(next, outputs))>>
    ELSE IF MissingParams(next, outputs) # <<>>
         THEN <<MissingMessage(next, task, MissingParams(next, outputs))>>
    ELSE <<>>

\* The outcome of the hand-off validation: the message of the early return,
\* or <<>> when the loop goes on.
Validate(next, task, outputs) ==
    IF ~Validated(next) THEN <<>>
    ELSE IF IncompatibleKeys(next, outputs) # <<>>
         THEN <<IncompatibleMessage(next, task, IncompatibleKeys(next, outputs))>>
    ELSE IF MissingParams(next, outputs) # <<>>
         THEN <<MissingMessage(next, task, MissingParams(next, outputs))>>
    ELSE <<>>

\* A slip: the rejected next task is logged as a failed step.
RejectedLogLogged(lg, next) == Append(lg, LogEntry(next, NoneValue, FALSE, <<>>))

\* The log a rejected hand-off returns with.
RejectedLog(lg, next) == lg

\* The hand-off is rejected: the second or third early return.
ReturnRejected(r) ==
    /\ pc[r] = "validate"
    /\ Validate(next_task[r], current[r], current_task_outputs[r]) # <<>>
    /\ pc' = [pc EXCEPT ![r] = "done"]
    /\ result' = [result EXCEPT ![r] =
          <<FailureResult(Validate(next_task[r], current[r], current_task_outputs[r])[1],
                          RejectedLog(log[r], next_task[r]))>>]
    /\ UNCHANGED <<request, log, current, previous_task_outputs, flow_failed,
                   task_succeeded, current_task_outputs, next_task, calls>>

\* flow_failed after the step.
\* A slip: the flag is assigned the verdict of the last step
\* (flow_failed = not condition_matched).
NextFailedLast(failed, matched) == ~matched

NextFailed(failed, matched) == IF ~matched THEN TRUE ELSE failed

\* A slip: the loop does not move on (current = current).
NextCurrentStays(cur, next) == cur

\* current = next_task
NextCurrent(cur, next) == next

\* The hand-off is accepted or not validated: the mismatch is recorded and
\* the loop moves to next_task.
Advance(r) ==
    /\ pc[r] = "validate"
    /\ Validate(next_task[r], current[r], current_task_outputs[r]) = <<>>
    /\ flow_failed' = [flow_failed EXCEPT ![r] =
          NextFailed(@, ConditionWasMet(Flow(r), current[r], task_succeeded[r]))]
    /\ previous_task_outputs' = [previous_task_outputs EXCEPT ![r] = current_task_outputs[r]]
    /\ current' = [current EXCEPT ![r] = NextCurrent(current[r], next_task[r])]
    /\ pc' = [pc EXCEPT ![r] = "while"]
    /\ UNCHANGED <<request, log, task_succeeded, current_task_outputs, next_task,
                   result, calls>>

Step(r) ==
    \/ execute_flow(r)
    \/ ReturnFinal(r)
    \/ ReturnUnknownTask(r)
    \/ RunTask(r)
    \/ ResolveNext(r)
    \/ ReturnRejected(r)
    \/ Advance(r)

Next == \E r \in Runs : Step(r)

\* No handler has started; the locals of execute do not exist yet.
Idle ==
    /\ pc = [r \in Runs |-> "idle"]
    /\ log = [r \in Runs |-> <<>>]
    /\ current = [r \in Runs |-> NoneValue]
    /\ previous_task_outputs = [r \in Runs |-> EmptyMap]
    /\ flow_failed = [r \in Runs |-> FALSE]
    /\ task_succeeded = [r \in Runs |-> FALSE]
    /\ current_task_outputs = [r \in Runs |-> EmptyMap]
    /\ next_task = [r \in Runs |-> NoneValue]
    /\ result = [r \in Runs |-> <<>>]
    /\ calls = [r \in Runs |-> <<>>]

\* One request: handler 1 received a flow, handler 2 none.
Init ==
    /\ request \in {[r \in Runs |-> IF r = 1 THEN <<f>> ELSE <<>>] : f \in Flows}
    /\ Idle

Spec == Init /\ [][Next]_vars

\* Two requests with the same flow, one for each handler; the two calls of
\* execute run one after the other or interleaved.
InitTwice ==
    /\ request \in {[r \in Runs |-> <<f>>] : f \in Flows}
    /\ Idle

SpecTwice == InitTwice /\ [][Next]_vars

\* The flows of two concurrent requests: at most one condition, and that one
\* for the start task, which is registered.
PairFlows ==
    {f \in Flows :
        /\ f.start_task \in Registry
        /\ Len(f.conditions) <= 1
        /\ \A i \in 1..Len(f.conditions) : f.conditions[i].source_task = f.start_task}

\* Two concurrent requests, each with a flow of its own; the two calls of
\* execute interleave step by step.
InitPair ==
    /\ request \in {[r \in Runs |-> <<fs[r]>>] : fs \in [Runs -> PairFlows]}
    /\ Idle

SpecPair == InitPair /\ [][Next]_vars

\* execute as the sequential program it is, run alone on a flow: the loop
\* from current, with at most fuel more tasks called.
RECURSIVE ExecuteLoop(_, _, _, _, _, _)
ExecuteLoop(flow, cur, previous, failed, lg, fuel) ==
    IF cur = End THEN FinalResult(flow, failed, lg)
    ELSE IF cur \notin Registry THEN FailureResult(NotFoundMessage(cur), lg)
    ELSE IF fuel = 0 THEN [status |-> "running"]
    ELSE LET t     == TryTask(flow, cur, previous)
             lg2   == Append(lg, t.entry)
             next  == GetNextTask(flow, cur, t.succeeded)
             check == Validate(next, cur, t.outputs)
         IN  IF next = NoneValue THEN FinalResult(flow, failed, lg2)
             ELSE IF check # <<>> THEN FailureResult(check[1], lg2)
             ELSE ExecuteLoop(flow, NextCurrent(cur, next), t.outputs,
                              NextFailed(failed, ConditionWasMet(flow, cur, t.succeeded)),
                              lg2, fuel - 1)

\* What execute returns for a flow when no other call runs.
ExecuteAlone(flow) ==
    ExecuteLoop(flow, InitialCurrent(flow), EmptyMap, FALSE, <<>>, MaxSteps)

\* ------------------------------------------------- reading a finished run

Returned(r) == pc[r] = "done"

\* The dict execute returned.
Res(r) == result[r][1]

\* How execute returned, read from its locals at the return: at the loop's
\* test with an unknown task, after the loop's test failed on the end
\* sentinel, after break, or from the hand-off validation.
ViaUnknown(r) == Returned(r) /\ current[r] \notin Registry \cup {End}

ViaEnd(r) == Returned(r) /\ current[r] = End

ViaBreak(r) == Returned(r) /\ current[r] \in Registry /\ next_task[r] = NoneValue

ViaRejected(r) == Returned(r) /\ current[r] \in Registry /\ next_task[r] # NoneValue

\* Entry e records an outcome other than the desired one.
Mismatch(e) ==
    e.expected_outcome # NoneValue /\ e.expected_outcome # ActualOutcome(e.success)

\* Handler r takes a step.
Moves(r) == pc'[r] # pc[r]

\* ------------------------------------------------------------------ claims

\* C1: whenever current at the top of a loop iteration is neither the end
\* sentinel nor a registered task, execute returns at once with status
\* "failure", a message naming that task and the log accumulated so far; the
\* task is neither called nor logged.  A flow whose start task is not
\* registered returns "failure" with an empty log.
C1_UnknownTaskAborts ==
    /\ [][\A r \in Runs :
            (pc[r] = "while" /\ current[r] # End /\ current[r] \notin Registry /\ Moves(r))
            => /\ pc'[r] = "done"
               /\ result'[r] =
                    <<[status |-> "failure",
                       message |-> [text |-> "Task '{1}' not found in registry",
                                    names |-> <<current[r]>>, list |-> <<>>],
                       execution_log |-> log[r]]>>
               /\ log'[r] = log[r]
               /\ calls'[r] = calls[r]
               /\ \A i \in 1..Len(log'[r]) : log'[r][i].task # current[r]
               /\ \A i \in 1..Len(calls'[r]) : calls'[r][i][1] # current[r]]_vars
    /\ [](\A r \in Runs :
            (Returned(r) /\ Flow(r).start_task \notin Registry \cup {End})
            => Res(r).status = "failure" /\ Res(r).execution_log = <<>>)

\* C1 witness: a run returned at an unknown task after logging a task.
C1_Witness ==
    \E r \in Runs :
        /\ ViaUnknown(r)
        /\ Res(r).status = "failure"
        /\ Len(Res(r).execution_log) >= 1

\* The step of handler r that ran current[r] has resolved its next task.
Resolved(r) ==
    \/ pc[r] \in {"validate", "break"}
    \/ Returned(r) /\ current[r] \in Registry

\* The first condition of task t in the flow of handler r.
CondOf(r, t) == Flow(r).conditions[FindCondition(Flow(r), t)]

\* Entry e of handler r desired success, and its task failed.
FailedAgainstSuccess(e) == e.expected_outcome = "success" /\ ~e.success

C3_Original ==
    \A r \in Runs :
        (Returned(r) /\ Len(log[r]) >= 1
           /\ log[r][Len(log[r])].expected_outcome = NoneValue)
        => Res(r).status = "completed"

\* C3 amended: a task without condition ends the run right after it was
\* called and logged; the status is "completed" when no earlier step of the
\* run recorded a mismatch and "failed" when one did, never "failure".
C3_NoConditionStops ==
    \A r \in Runs :
        /\ (Resolved(r) /\ FindCondition(Flow(r), current[r]) = 0)
           => /\ pc[r] # "validate"
              /\ next_task[r] = NoneValue
              /\ log[r][Len(log[r])].task = current[r]
              /\ log[r][Len(log[r])].expected_outcome = NoneValue
        /\ (Returned(r) /\ Len(log[r]) >= 1
              /\ log[r][Len(log[r])].expected_outcome = NoneValue)
           => /\ ViaBreak(r)
              /\ Res(r).execution_log = log[r]
              /\ Len(calls[r]) = Len(log[r])
              /\ calls[r][Len(calls[r])][1] = current[r]
              /\ Res(r).status =
                    IF \E i \in 1..(Len(log[r]) - 1) : Mismatch(log[r][i])
                    THEN "failed" ELSE "completed"

\* C3 witness: a run stopped at a task without condition after an earlier
\* mismatch, and returned "failed".
C3_Witness ==
    \E r \in Runs :
        /\ ViaBreak(r)
        /\ FindCondition(Flow(r), current[r]) = 0
        /\ Len(log[r]) >= 2
        /\ Mismatch(log[r][1])
        /\ Res(r).status = "failed"

\* The parameters of registered task t that have no default.
NoDefault(t) == {p \in ParamNames(t) : p \notin DOMAIN Signature(t).defaults}

\* List l holds exactly the elements of set S, each once.
ListsExactly(l, S) ==
    /\ {l[i] : i \in 1..Len(l)} = S
    /\ Len(l) = Cardinality(S)

\* Handler r is about to validate a hand-off to a registered task.
AtHandOff(r) ==
    pc[r] = "validate" /\ next_task[r] # End /\ next_task[r] \in Registry

\* Once execute has returned, its log and its calls stay as they are.
ReturnIsFinal(r) ==
    pc[r] = "done" => (pc'[r] = "done" /\ log'[r] = log[r] /\ calls'[r] = calls[r])

\* C4: whenever the task that just ran succeeded and the next task resolved
\* is a registered task that does not accept every key of its outputs,
\* execute returns status "failure" with a message naming the two tasks and
\* listing exactly the keys not accepted; the next task is neither called nor
\* logged.
C4_IncompatibleOutputsAbort ==
    [][\A r \in Runs :
         /\ (AtHandOff(r) /\ task_succeeded[r] /\ Moves(r)
               /\ ~(DOMAIN current_task_outputs[r] \subseteq ParamNames(next_task[r])))
            => /\ pc'[r] = "done"
               /\ Len(result'[r]) = 1
               /\ result'[r][1].status = "failure"
               /\ result'[r][1].message.text =
                     "Task '{1}' does not accept outputs from '{2}': {list}"
               /\ result'[r][1].message.names = <<next_task[r], current[r]>>
               /\ ListsExactly(result'[r][1].message.list,
                               DOMAIN current_task_outputs[r] \ ParamNames(next_task[r]))
               /\ result'[r][1].execution_log = log[r]
               /\ log'[r] = log[r]
               /\ calls'[r] = calls[r]
               /\ log[r][Len(log[r])].task = current[r]
         /\ ReturnIsFinal(r)]_vars

\* C4 witness: a run was aborted because the next task does not accept an
\* output of a task that succeeded.
C4_Witness ==
    \E r \in Runs :
        /\ ViaRejected(r)
        /\ task_succeeded[r]
        /\ ~(DOMAIN current_task_outputs[r] \subseteq ParamNames(next_task[r]))
        /\ Res(r).status = "failure"
        /\ Len(Res(r).message.list) >= 1

\* C5 as stated: whenever the next task resolved is a registered task and
\* the outputs omit one of its parameters without default, execute returns
\* status "failure" with a message listing exactly the missing parameters.
C5_Original ==
    [][\A r \in Runs :
         (AtHandOff(r) /\ Moves(r)
            /\ NoDefault(next_task[r]) \ DOMAIN current_task_outputs[r] # {})
         => /\ pc'[r] = "done"
            /\ Len(result'[r]) = 1
            /\ result'[r][1].status = "failure"
            /\ ListsExactly(result'[r][1].message.list,
                            NoDefault(next_task[r]) \ DOMAIN current_task_outputs[r])]_vars

\* C5 amended: whenever the next task resolved is a registered task that
\* accepts every key of the outputs, and the outputs omit one of its
\* parameters without default, execute returns status "failure" with a
\* message naming the two tasks and listing exactly the missing parameters,
\* and the next task is not called.  (When some key is not accepted, the
\* return is the one of C4 and lists those keys.)
C5_MissingParamsAbort ==
    [][\A r \in Runs :
         /\ (AtHandOff(r) /\ Moves(r)
               /\ DOMAIN current_task_outputs[r] \subseteq ParamNames(next_task[r])
               /\ NoDefault(next_task[r]) \ DOMAIN current_task_outputs[r] # {})
            => /\ pc'[r] = "done"
               /\ Len(result'[r]) = 1
               /\ result'[r][1].status = "failure"
               /\ result'[r][1].message.text =
                     "Task '{1}' is missing required parameters from previous task '{2}': {list}"
               /\ result'[r][1].message.names = <<next_task[r], current[r]>>
               /\ ListsExactly(result'[r][1].message.list,
                               NoDefault(next_task[r]) \ DOMAIN current_task_outputs[r])
               /\ result'[r][1].execution_log = log[r]
               /\ log'[r] = log[r]
               /\ calls'[r] = calls[r]
         /\ ReturnIsFinal(r)]_vars

\* C5 witness: a run was aborted for a missing parameter after a task that
\* succeeded with outputs the next task accepts.
C5_Witness ==
    \E r \in Runs :
        /\ ViaRejected(r)
        /\ DOMAIN current_task_outputs[r] \subseteq ParamNames(next_task[r])
        /\ NoDefault(next_task[r]) \ DOMAIN current_task_outputs[r] # {}
        /\ Res(r).status = "failure"
        /\ Res(r).message.list = <<"x">>

\* The arguments execute passes to task t after outputs previous.
ArgsFrom(t, previous) == [k \in DOMAIN previous \cap ParamNames(t) |-> previous[k]]

\* The branch of task t in the flow of handler r when t failed.
BranchOnFailure(r, t) ==
    IF FindCondition(Flow(r), t) = 0 THEN NoneValue
    ELSE IF CondOf(r, t).outcome = "failure"
         THEN CondOf(r, t).target_task_success
         ELSE CondOf(r, t).target_task_failure

\* The step of a task that raises: the fault is caught, one entry with
\* success = false and no output is logged, the outputs handed on are empty,
\* and the branch is resolved for the outcome "failure".
C6_Caught(r) ==
    /\ (pc[r] = "while" /\ current[r] \in Registry /\ Moves(r)
          /\ CallTask(current[r], ArgsFrom(current[r], previous_task_outputs[r])).raised)
       => /\ pc'[r] = "resolve"
          /\ result'[r] = <<>>
          /\ log'[r] = Append(log[r],
                [task |-> current[r],
                 expected_outcome |-> ExpectedOutcome(Flow(r), current[r]),
                 success |-> FALSE, output |-> <<>>])
          /\ calls'[r] = Append(calls[r],
                <<current[r], ArgsFrom(current[r], previous_task_outputs[r])>>)
          /\ current_task_outputs'[r] = EmptyMap
          /\ ~task_succeeded'[r]
    /\ (pc[r] = "resolve" /\ Moves(r) /\ ~log[r][Len(log[r])].success)
       => /\ next_task'[r] = BranchOnFailure(r, current[r])
          /\ pc'[r] \in {"validate", "break"}

\* C6 as stated: a fault raised by a task is caught and logged as above, and
\* the step at which the task faulted never makes execute return "failure".
C6_Original ==
    /\ [][\A r \in Runs : C6_Caught(r)]_vars
    /\ [](\A r \in Runs :
            (Returned(r) /\ current[r] \in Registry /\ ~log[r][Len(log[r])].success)
            => Res(r).status # "failure")

\* C6 amended: a fault raised by a task is caught and logged as above and is
\* itself never returned; the step at which the task faulted makes execute
\* return "failure" only through the hand-off validation, when the next task
\* resolved is a registered task with a parameter without default, which the
\* empty outputs omit: the message lists those parameters.
C6_FaultIsCaught ==
    /\ [][\A r \in Runs : C6_Caught(r)]_vars
    /\ [](\A r \in Runs :
            (Returned(r) /\ current[r] \in Registry /\ ~log[r][Len(log[r])].success
               /\ Res(r).status = "failure")
            => /\ next_task[r] \in Registry
               /\ NoDefault(next_task[r]) # {}
               /\ Res(r).message.text =
                     "Task '{1}' is missing required parameters from previous task '{2}': {list}"
               /\ ListsExactly(Res(r).message.list, NoDefault(next_task[r]))
               /\ Res(r).execution_log = log[r])

\* C6 witness: a task that is not the start task raised, and the run went on
\* to call the task of its branch.
C6_Witness ==
    \E r \in Runs :
        /\ Len(log[r]) >= 3
        /\ ~log[r][2].success
        /\ calls[r][2][2] # EmptyMap
        /\ log[r][3].task = BranchOnFailure(r, log[r][2].task)

\* C7 as stated: the returned log has one entry per call, in the order of
\* the calls, and the task that triggered an abort has no entry in it.
C7_Original ==
    \A r \in Runs :
        Returned(r)
        => /\ Len(Res(r).execution_log) = Len(calls[r])
           /\ \A i \in 1..Len(calls[r]) : Res(r).execution_log[i].task = calls[r][i][1]
           /\ ViaUnknown(r)
              => \A i \in 1..Len(Res(r).execution_log) :
                    Res(r).execution_log[i].task # current[r]
           /\ (ViaRejected(r) /\ Res(r).status = "failure")
              => \A i \in 1..Len(Res(r).execution_log) :
                    Res(r).execution_log[i].task # next_task[r]

\* C7 amended: in every run, however it ends, the log has one entry per
\* call, in the order of the calls, and it is the log returned; a return
\* appends no entry, so an abort logs nothing for the task that triggered it.
\* An unknown task has no entry at all; a next task rejected by the
\* validation has entries only for its own earlier calls (a cyclic flow).
C7_LogMatchesCalls ==
    /\ [](\A r \in Runs :
            /\ Len(log[r]) = Len(calls[r])
            /\ \A i \in 1..Len(calls[r]) : log[r][i].task = calls[r][i][1]
            /\ Returned(r) => Res(r).execution_log = log[r]
            /\ ViaUnknown(r) => \A i \in 1..Len(log[r]) : log[r][i].task # current[r]
            /\ ViaRejected(r) => log[r][Len(log[r])].task = current[r])
    /\ [][\A r \in Runs :
            (Moves(r) /\ pc'[r] = "done")
            => /\ log'[r] = log[r]
               /\ calls'[r] = calls[r]
               /\ result'[r][1].execution_log = log[r]]_vars

\* C7 witness: a hand-off back to a task called earlier in the run was
\* rejected; the returned log has one entry per call.
C7_Witness ==
    \E r \in Runs :
        /\ ViaRejected(r)
        /\ Res(r).status = "failure"
        /\ Len(Res(r).execution_log) = 2
        /\ Len(calls[r]) = 2
        /\ Res(r).execution_log[1].task = next_task[r]

\* C8: a run that is not aborted and in which every task called had the
\* outcome its condition desires (a task without condition counts as met)
\* returns "completed"; "failed" is returned only if some entry of the log
\* has an outcome other than its expected one.
C8_FailedOnlyAfterMismatch ==
    \A r \in Runs :
        Returned(r)
        => /\ (/\ Res(r).status # "failure"
               /\ \A i \in 1..Len(Res(r).execution_log) :
                     ~Mismatch(Res(r).execution_log[i]))
              => Res(r).status = "completed"
           /\ Res(r).status = "failed"
              => \E i \in 1..Len(Res(r).execution_log) :
                    Mismatch(Res(r).execution_log[i])

\* C8 witness: a run of two tasks, both with a condition whose desired
\* outcome was met, one of them by failing, returned "completed".
C8_Witness ==
    \E r \in Runs :
        /\ ViaEnd(r)
        /\ Len(log[r]) = 2
        /\ \A i \in 1..2 :
              log[r][i].expected_outcome # NoneValue /\ ~Mismatch(log[r][i])
        /\ \E i \in 1..2 : ~log[r][i].success
        /\ Res(r).status = "completed"

\* C9: every result of execute is either status "failure" with a message
\* and the log and without flow_id and flow_name, returned only for an
\* unknown task or a rejected hand-off, or status "completed" or "failed"
\* with flow_id, flow_name and the log and without message.
C9_ResultShapes ==
    \A r \in Runs :
        /\ ~Returned(r) => result[r] = <<>>
        /\ Returned(r)
           => /\ Len(result[r]) = 1
              /\ Res(r).status \in {"failure", "completed", "failed"}
              /\ Res(r).execution_log = log[r]
              /\ Res(r).status = "failure"
                 => /\ DOMAIN Res(r) = {"status", "message", "execution_log"}
                    /\ ViaUnknown(r) \/ ViaRejected(r)
                    /\ ViaUnknown(r)
                       => Res(r).message.text = "Task '{1}' not found in registry"
                    /\ ViaRejected(r)
                       => Res(r).message.text \in
                            {"Task '{1}' does not accept outputs from '{2}': {list}",
                             "Task '{1}' is missing required parameters from previous task '{2}': {list}"}
              /\ Res(r).status # "failure"
                 => /\ DOMAIN Res(r) = {"status", "flow_id", "flow_name", "execution_log"}
                    /\ ViaEnd(r) \/ ViaBreak(r)
                    /\ Res(r).flow_id = Flow(r).id
                    /\ Res(r).flow_name = Flow(r).name

\* C9 witness: a run that reached the end sentinel after a mismatch returned
\* the final shape with status "failed".
C9_Witness ==
    \E r \in Runs :
        /\ ViaEnd(r)
        /\ Len(log[r]) >= 1
        /\ Res(r).status = "failed"
        /\ DOMAIN Res(r) = {"status", "flow_id", "flow_name", "execution_log"}

\* C10: two calls of execute with the same flow and the same registry of
\* pure tasks return the same result: the same status, message, flow id and
\* name, and the same log entry by entry.
C10_Deterministic ==
    \A r, q \in Runs :
        (Returned(r) /\ Returned(q) /\ request[r] = request[q])
        => result[r] = result[q]

\* C10 witness: both calls returned, after calling a task on an output of
\* the task before it.
C10_Witness ==
    /\ \A r \in Runs : Returned(r) /\ Len(Res(r).execution_log) >= 2
    /\ request[1] = request[2]
    /\ calls[1][2][2] # EmptyMap
    /\ result[1] = result[2]

\* The locals of the call of handler r.
Locals(r) ==
    <<log[r], current[r], previous_task_outputs[r], flow_failed[r],
      task_succeeded[r], current_task_outputs[r], next_task[r], result[r], calls[r]>>

\* C11: concurrent calls of execute are independent: in every interleaving
\* of two calls, a step of one call leaves the log, the previous outputs,
\* the flow_failed flag and the other locals of the other call as they are,
\* no step changes a flow, and each call returns what it returns when it
\* runs alone.
C11_CallsAreIndependent ==
    /\ [][/\ request' = request
          /\ \A r \in Runs : ~Moves(r) => Locals(r)' = Locals(r)
          /\ \E r \in Runs : Moves(r) /\ \A q \in Runs \ {r} : ~Moves(q)]_vars
    /\ [](\A r \in Runs : Returned(r) => result[r] = <<ExecuteAlone(Flow(r))>>)

\* C11 witness: two calls with different flows have both returned, each
\* after calling two tasks, with different results.
C11_Witness ==
    /\ \A r \in Runs : Returned(r) /\ Len(log[r]) >= 2
    /\ request[1] # request[2]
    /\ Res(1).status # Res(2).status
    /\ \A r \in Runs : result[r] = <<ExecuteAlone(Flow(r))>>

\* The last entry of the log of handler r.
LastEntry(r) == log[r][Len(log[r])]

\* The target the first condition of task t selects for outcome succeeded.
SelectedTarget(r, t, succeeded) ==
    IF CondOf(r, t).outcome = ActualOutcome(succeeded)
    THEN CondOf(r, t).target_task_success
    ELSE CondOf(r, t).target_task_failure

\* The task handler r ran last has a condition whose selected target is
\* absent.
TargetAbsent(r) ==
    /\ Resolved(r)
    /\ FindCondition(Flow(r), current[r]) # 0
    /\ SelectedTarget(r, current[r], LastEntry(r).success) = NoneValue

C13_MismatchMeansFailed ==
    \A r \in Runs :
        (/\ Returned(r)
         /\ Res(r).status # "failure"
         /\ \E j \in 1..Len(log[r]) : Mismatch(log[r][j]))
        => /\ Res(r).status = "failed"
           /\ \A j \in 1..Len(log[r]) :
                 Mismatch(log[r][j])
                 => IF j < Len(log[r])
                    THEN log[r][j + 1].task =
                            SelectedTarget(r, log[r][j].task, log[r][j].success)
                    ELSE SelectedTarget(r, log[r][j].task, log[r][j].success) = End

\* C14: flow_failed is false when the loop is entered, no step of a call
\* turns it from true to false, and a call that leaves the loop normally (end
\* sentinel or break) with the flag set returns "failed", with the flag
\* clear "completed".
C14_FlagIsMonotone ==
    /\ [](\A r \in Runs :
            /\ (pc[r] = "while" /\ log[r] = <<>>) => ~flow_failed[r]
            /\ (ViaEnd(r) \/ ViaBreak(r))
               => Res(r).status = IF flow_failed[r] THEN "failed" ELSE "completed")
    /\ [][\A r \in Runs :
            (pc[r] # "idle" /\ flow_failed[r]) => flow_failed'[r]]_vars

\* C14 witness: the first task mismatched, the second matched, and the run
\* reached the end sentinel with status "failed".
C14_Witness ==
    \E r \in Runs :
        /\ ViaEnd(r)
        /\ Len(log[r]) = 2
        /\ Mismatch(log[r][1])
        /\ ~Mismatch(log[r][2])
        /\ log[r][2].expected_outcome # NoneValue
        /\ Res(r).status = "failed"

\* The outputs are accepted by task t: every key is a parameter of t and
\* every parameter of t without default is a key.
Accepts(t, outputs) ==
    /\ DOMAIN outputs \subseteq ParamNames(t)
    /\ NoDefault(t) \subseteq DOMAIN outputs

\* C15: at the hand-off to a registered next task, whichever target it is
\* and whether or not the step matched, the loop moves on to that task
\* exactly when it accepts the current outputs, and only then records the
\* mismatch; otherwise execute returns "failure" with the flag as the
\* earlier steps left it.
C15_ValidatedWhicheverBranch ==
    [][\A r \in Runs :
         (AtHandOff(r) /\ Moves(r))
         => IF Accepts(next_task[r], current_task_outputs[r])
            THEN /\ pc'[r] = "while"
                 /\ current'[r] = next_task[r]
                 /\ flow_failed'[r] = (flow_failed[r] \/ Mismatch(LastEntry(r)))
            ELSE /\ pc'[r] = "done"
                 /\ result'[r][1].status = "failure"
                 /\ result'[r][1].execution_log = log[r]
                 /\ flow_failed'[r] = flow_failed[r]]_vars

\* C15 witness: a task missed its desired outcome, its failure target does
\* not accept its outputs, and execute returned "failure" with the flag
\* clear.
C15_Witness ==
    \E r \in Runs :
        /\ ViaRejected(r)
        /\ Mismatch(LastEntry(r))
        /\ next_task[r] = CondOf(r, current[r]).target_task_failure
        /\ ~flow_failed[r]
        /\ Res(r).status = "failure"

\* One call runs as sequential code: a statement that can run does run.
SpecFair == Spec /\ \A r \in Runs : WF_vars(Step(r))

\* The names a flow can mention.
Names == Registry \cup {End, Ghost}

\* The targets of the conditions of task t, every condition counted.
Successors(flow, t) ==
    ({flow.conditions[i].target_task_success :
         i \in {j \in 1..Len(flow.conditions) : flow.conditions[j].source_task = t}}
     \cup {flow.conditions[i].target_task_failure :
         i \in {j \in 1..Len(flow.conditions) : flow.conditions[j].source_task = t}})
    \ {NoneValue}

RECURSIVE ReachFrom(_, _, _)
ReachFrom(flow, S, n) ==
    IF n = 0 THEN S
    ELSE ReachFrom(flow, S \cup UNION {Successors(flow, t) : t \in S}, n - 1)

\* The names reachable from the start task, itself included.
Reachable(flow) == ReachFrom(flow, {flow.start_task}, Cardinality(Names))

\* No cycle of the graph is reachable from the start task.
Acyclic(flow) ==
    \A t \in Reachable(flow) :
        t \notin ReachFrom(flow, Successors(flow, t), Cardinality(Names))

\* C16: for a flow whose graph has no cycle reachable from the start task,
\* no task appears twice in the log, the log is no longer than the number of
\* task names reachable from the start task, and execute returns; a log that
\* repeats a task belongs to a flow with a reachable cycle.
C16_AcyclicTerminates ==
    /\ [](\A r \in Runs :
            (pc[r] # "idle" /\ Acyclic(Flow(r)))
            => /\ \A i, j \in 1..Len(log[r]) :
                     log[r][i].task = log[r][j].task => i = j
               /\ Len(log[r]) = Len(calls[r])
               /\ Len(log[r]) <= Cardinality(Reachable(Flow(r)) \ {End}))
    /\ \A r \in Runs :
          (pc[r] # "idle" /\ Acyclic(Flow(r))) ~> Returned(r)

\* C16 witness: an acyclic flow of two reachable tasks returned after
\* running both.
C16_Witness ==
    \E r \in Runs :
        /\ Returned(r)
        /\ Acyclic(Flow(r))
        /\ Len(log[r]) = 2
        /\ Cardinality(Reachable(Flow(r)) \ {End}) = 2

\* Condition i of the flow is the first one of its source task.
IsFirst(flow, i) ==
    \A k \in 1..(i - 1) : flow.conditions[k].source_task # flow.conditions[i].source_task

\* Task t has a condition in the flow.
HasCondition(flow, t) ==
    \E i \in 1..Len(flow.conditions) : flow.conditions[i].source_task = t

\* The first condition of task t, which has one.
FirstCondition(flow, t) ==
    flow.conditions[CHOOSE i \in 1..Len(flow.conditions) :
                        flow.conditions[i].source_task = t /\ IsFirst(flow, i)]

\* The target condition c selects for the outcome succeeded.
TargetOf(c, succeeded) ==
    IF c.outcome = ActualOutcome(succeeded)
    THEN c.target_task_success ELSE c.target_task_failure

\* The conditions from index i on that are the first of their source task.
RECURSIVE KeepFirsts(_, _)
KeepFirsts(flow, i) ==
    IF i > Len(flow.conditions) THEN <<>>
    ELSE (IF IsFirst(flow, i) THEN <<flow.conditions[i]>> ELSE <<>>)
         \o KeepFirsts(flow, i + 1)

\* The flow without the later conditions of a source task.
Dedup(flow) == [flow EXCEPT !.conditions = KeepFirsts(flow, 1)]

\* The number of logged steps of handler r whose hand-off was completed.
Advanced(r) ==
    IF log[r] = <<>> THEN 0
    ELSE IF pc[r] = "while" \/ (Returned(r) /\ current[r] \notin Registry)
         THEN Len(log[r])
         ELSE Len(log[r]) - 1

\* C17: of several conditions with the same source task the first of the
\* list is the one used, in all three uses of a step: the expected_outcome
\* of the log entry, the next task, and the verdict kept in flow_failed; the
\* result is the one of the flow without the later conditions.
C17_FirstConditionUsed ==
    \A r \in Runs :
        pc[r] # "idle"
        => /\ \A j \in 1..Len(log[r]) :
                 LET t == log[r][j].task
                 IN  /\ log[r][j].expected_outcome =
                           IF HasCondition(Flow(r), t)
                           THEN FirstCondition(Flow(r), t).outcome ELSE NoneValue
                     /\ j < Len(log[r])
                        => /\ HasCondition(Flow(r), t)
                           /\ log[r][j + 1].task =
                                 TargetOf(FirstCondition(Flow(r), t), log[r][j].success)
           /\ Resolved(r)
              => next_task[r] =
                    IF HasCondition(Flow(r), current[r])
                    THEN TargetOf(FirstCondition(Flow(r), current[r]), LastEntry(r).success)
                    ELSE NoneValue
           /\ flow_failed[r] =
                 \E j \in 1..Advanced(r) :
                    /\ HasCondition(Flow(r), log[r][j].task)
                    /\ FirstCondition(Flow(r), log[r][j].task).outcome
                          # ActualOutcome(log[r][j].success)
           /\ Returned(r) => result[r] = <<ExecuteAlone(Dedup(Flow(r)))>>

\* C17 witness: a flow with two conditions of the start task that desire
\* different outcomes and select different targets returned after two steps,
\* the second one on the target of the first condition.
C17_Witness ==
    \E r \in Runs :
        /\ Returned(r)
        /\ Len(Flow(r).conditions) = 2
        /\ Flow(r).conditions[1].source_task = Flow(r).start_task
        /\ Flow(r).conditions[2].source_task = Flow(r).start_task
        /\ Flow(r).conditions[1].outcome # Flow(r).conditions[2].outcome
        /\ Len(log[r]) = 2
        /\ log[r][1].expected_outcome = Flow(r).conditions[1].outcome
        /\ log[r][2].task = TargetOf(Flow(r).conditions[1], log[r][1].success)
        /\ log[r][2].task # TargetOf(Flow(r).conditions[2], log[r][1].success)
        /\ Res(r).status = "failed"

\* The output mapping entry e stands for: the logged output of a success,
\* the empty mapping of a failure.
OutputsOf(e) == IF e.output = <<>> THEN EmptyMap ELSE e.output[1]

\* C18: every call after the first one of a run is made with exactly the
\* output mapping of the step logged before it, nothing dropped by the
\* filter, and these arguments include every parameter of the task that has
\* no default.
C18_ArgsAreThePreviousOutputs ==
    \A r \in Runs :
        \A i \in 2..Len(calls[r]) :
            /\ i <= Len(log[r])
            /\ calls[r][i][1] = log[r][i].task
            /\ calls[r][i][2] = OutputsOf(log[r][i - 1])
            /\ NoDefault(calls[r][i][1]) \subseteq DOMAIN calls[r][i][2]

\* C18 witness: the second task of a run has a required parameter and was
\* called with the non-empty outputs of the first.
C18_Witness ==
    \E r \in Runs :
        /\ Len(calls[r]) >= 2
        /\ NoDefault(calls[r][2][1]) # {}
        /\ calls[r][2][2] # EmptyMap
        /\ calls[r][2][2] = OutputsOf(log[r][1])
        /\ log[r][2].success

\* C19: the log is a path of the graph from the start task: its first entry
\* is the start task, every entry but the last has a condition and is
\* followed by the target its first condition selects for its outcome, so an
\* entry whose expected_outcome is none is the last one; the log returned is
\* that log.
C19_LogIsAPath ==
    \A r \in Runs :
        pc[r] # "idle"
        => /\ log[r] # <<>> => log[r][1].task = Flow(r).start_task
           /\ \A j \in 1..(Len(log[r]) - 1) :
                 /\ log[r][j].expected_outcome # NoneValue
                 /\ HasCondition(Flow(r), log[r][j].task)
                 /\ log[r][j + 1].task # NoneValue
                 /\ log[r][j + 1].task =
                       TargetOf(FirstCondition(Flow(r), log[r][j].task), log[r][j].success)
           /\ \A j \in 1..Len(log[r]) : log[r][j].task \in Registry
           /\ Returned(r) => Res(r).execution_log = log[r]

\* C19 witness: a run took the failure target of its start task to another
\* task, which has no condition and ended the run.
C19_Witness ==
    \E r \in Runs :
        /\ Returned(r)
        /\ Len(log[r]) = 2
        /\ log[r][1].task = Flow(r).start_task
        /\ Mismatch(log[r][1])
        /\ log[r][2].task = FirstCondition(Flow(r), log[r][1].task).target_task_failure
        /\ log[r][2].task # log[r][1].task
        /\ log[r][2].expected_outcome = NoneValue

\* The start task of handler r is registered and has a parameter without
\* default.
StartNeedsArgs(r) ==
    /\ pc[r] # "idle"
    /\ Flow(r).start_task \in Registry
    /\ NoDefault(Flow(r).start_task) # {}

\* C20: a registered start task with a required parameter is not validated:
\* execute never returns before calling it, calls it with no arguments, logs
\* the fault as a failed step, and resolves the branch for the outcome
\* "failure"; the run goes on from there, and a "failure" returned after
\* that one step is about the next task, unknown or rejected at the
\* hand-off.
C20_StartTaskNotValidated ==
    \A r \in Runs :
        StartNeedsArgs(r)
        => /\ Returned(r) => log[r] # <<>>
           /\ log[r] # <<>>
              => /\ calls[r][1] = <<Flow(r).start_task, EmptyMap>>
                 /\ log[r][1].task = Flow(r).start_task
                 /\ ~log[r][1].success
                 /\ log[r][1].output = <<>>
           /\ (Len(log[r]) = 1 /\ Resolved(r))
              => /\ ~task_succeeded[r]
                 /\ next_task[r] =
                       IF HasCondition(Flow(r), current[r])
                       THEN TargetOf(FirstCondition(Flow(r), current[r]), FALSE)
                       ELSE NoneValue
           /\ (Returned(r) /\ Len(log[r]) = 1 /\ Res(r).status = "failure")
              => /\ HasCondition(Flow(r), Flow(r).start_task)
                 /\ Res(r).message.names[1] =
                       TargetOf(FirstCondition(Flow(r), Flow(r).start_task), FALSE)
                 /\ \/ ViaUnknown(r)
                    \/ /\ ViaRejected(r)
                       /\ ~Accepts(next_task[r], EmptyMap)

\* C20 witness: the start task has a required parameter, failed on the call
\* without arguments, and the run went on to its failure target and ran it.
C20_Witness ==
    \E r \in Runs :
        /\ Returned(r)
        /\ StartNeedsArgs(r)
        /\ Len(log[r]) = 2
        /\ ~log[r][1].success
        /\ log[r][2].success
        /\ Res(r).status # "failure"

====
